---- MODULE Spec2Model ----
(***************************************************************************)
(* The cache store of cloudflare-dyndns (src/cloudflare_dyndns/cache.py):  *)
(* the pydantic models ZoneRecord / IPCache / Cache, their JSON form, and  *)
(* CacheManager's ensure_path / load / _load / save / delete acting on one *)
(* cache path of a file system.                                            *)
(***************************************************************************)
EXTENDS Integers, Sequences, FiniteSets, TLC

\* ------------------------------------------------------------------ bounds
\* Domains the model configures and caches.
MaxDomains == 2
\* Addresses per address family in the Cache values handed to save().
MaxAddrs == 1

\* ------------------------------------------------------------------ values
DomainNames == <<"a.example", "b.example", "c.example", "d.example">>
Domains == {DomainNames[i] : i \in 1..MaxDomains}

\* Python's None (an absent address, an operation without a return value).
None == [none |-> TRUE]

\* An IPAddress value: its family (4 or 6) and which address of that family.
Addr(v, n) == [v |-> v, n |-> n]

\* The textual forms of the addresses: str(address) is the canonical one; the
\* address parser also accepts the exploded form of an IPv6 address.
V4Text == <<"203.0.113.5", "198.51.100.7", "192.0.2.1", "192.0.2.2">>
V6Text == <<"2001:db8::1", "2001:db8::2", "2001:db8::3", "2001:db8::4">>
V6Exploded == <<"2001:0db8:0:0:0:0:0:1", "2001:0db8:0:0:0:0:0:2",
                "2001:0db8:0:0:0:0:0:3", "2001:0db8:0:0:0:0:0:4">>

AddrText(a) == IF a.v = 4 THEN V4Text[a.n] ELSE V6Text[a.n]

Ok(v) == [ok |-> TRUE, v |-> v]
Fail == [ok |-> FALSE, v |-> None]

ParseAddr(s) ==
  IF \E i \in DOMAIN V4Text : V4Text[i] = s
    THEN Ok(Addr(4, CHOOSE i \in DOMAIN V4Text : V4Text[i] = s))
  ELSE IF \E i \in DOMAIN V6Text : V6Text[i] = s \/ V6Exploded[i] = s
    THEN Ok(Addr(6, CHOOSE i \in DOMAIN V6Text : V6Text[i] = s \/ V6Exploded[i] = s))
  ELSE Fail

\* class ZoneRecord(BaseModel): zone_id: str; record_id: str; proxied: bool = False
ZoneRecord(z, r, p) == [zone_id |-> z, record_id |-> r, proxied |-> p]
ZoneRecords == {ZoneRecord("z1", "r1", p) : p \in BOOLEAN}

\* The maps Domain -> ZoneRecord over the model's domains.
DomainMaps == UNION {[D -> ZoneRecords] : D \in SUBSET Domains}
NoDomains == [d \in {} |-> ZoneRecord("z1", "r1", FALSE)]

\* class IPCache(BaseModel): address: Optional[IPAddress] = None;
\*                           updated_domains: Dict[str, ZoneRecord] = dict()
IPCache(a, m) == [address |-> a, updated_domains |-> m]
\* The IPCache values of family v the model hands to save(): every address of
\* the family (or none) with every map; and a few with an address of any family.
IPCaches(v) == {IPCache(a, m) : a \in {None} \cup {Addr(v, n) : n \in 1..MaxAddrs},
                                m \in DomainMaps}
FewIPCaches ==
  { IPCache(None, NoDomains),
    IPCache(Addr(6, 1), [d \in {DomainNames[1]} |-> ZoneRecord("z1", "r1", TRUE)]),
    IPCache(Addr(4, 1), [d \in {DomainNames[2]} |-> ZoneRecord("z1", "r1", FALSE)]) }

\* IPCache.clear()
clear(ipc) == [ipc EXCEPT !.address = None, !.updated_domains = NoDomains]

\* class Cache(BaseModel): ipv4 = IPCache(); ipv6 = IPCache().  Cache() copies
\* the field defaults, so every Cache() is the same fresh value.
Cache(i4, i6) == [ipv4 |-> i4, ipv6 |-> i6]
EmptyCache == Cache(IPCache(None, NoDomains), IPCache(None, NoDomains))
Caches == {Cache(i4, i6) : i4 \in IPCaches(4), i6 \in FewIPCaches}
          \cup {Cache(i4, i6) : i4 \in FewIPCaches, i6 \in IPCaches(6)}

\* -------------------------------------------------------------------- JSON
\* A JSON value: null, a boolean, a string or an object (a function from its
\* keys to JSON values).
JNull == [t |-> "null"]
JBool(b) == [t |-> "bool", b |-> b]
JStr(s) == [t |-> "str", s |-> s]
JObj(o) == [t |-> "obj", o |-> o]

\* A serialiser that leaves out a field holding its default.
ZoneRecordJsonNoProxied(zr) ==
  JObj([zone_id |-> JStr(zr.zone_id), record_id |-> JStr(zr.record_id)])

\* A serialiser that leaves out a required field.
ZoneRecordJsonNoZoneId(zr) ==
  JObj([record_id |-> JStr(zr.record_id), proxied |-> JBool(zr.proxied)])

\* BaseModel.json() of the three models: every field is written.
ZoneRecordJson(zr) ==
  JObj([zone_id |-> JStr(zr.zone_id), record_id |-> JStr(zr.record_id),
        proxied |-> JBool(zr.proxied)])

IPCacheJson(ipc) ==
  JObj([address |-> IF ipc.address = None THEN JNull
                    ELSE JStr(AddrText(ipc.address)),
        updated_domains |->
          JObj([d \in DOMAIN ipc.updated_domains |->
                  ZoneRecordJson(ipc.updated_domains[d])])])

CacheJson(c) == JObj([ipv4 |-> IPCacheJson(c.ipv4), ipv6 |-> IPCacheJson(c.ipv6)])

\* The content of a file: a JSON document, text that is no JSON, no text at
\* all, the leading part of a JSON document, or bytes that are no UTF-8.
JsonText(j) == [k |-> "json", doc |-> j]
GarbageText == [k |-> "garbage", doc |-> JNull]
EmptyText == [k |-> "empty", doc |-> JNull]
PartialText(j) == [k |-> "partial", doc |-> j]
UndecodableText == [k |-> "undecodable", doc |-> JNull]

\* cache.json()
json(c) == JsonText(CacheJson(c))

\* ------------------------------------------------- validation (parse_raw)
\* str field: a string; a boolean is coerced to its str().
ParseStr(j) ==
  IF j.t = "str" THEN Ok(j.s)
  ELSE IF j.t = "bool" THEN Ok(IF j.b THEN "True" ELSE "False")
  ELSE Fail

\* bool field: a boolean, or one of the strings pydantic reads as one.
ParseBool(j) ==
  IF j.t = "bool" THEN Ok(j.b)
  ELSE IF j.t = "str" /\ j.s \in {"true", "yes", "on", "1", "t", "y"} THEN Ok(TRUE)
  ELSE IF j.t = "str" /\ j.s \in {"false", "no", "off", "0", "f", "n"} THEN Ok(FALSE)
  ELSE Fail

\* Optional[IPAddress] field: null is None, a string must parse as an address.
ParseAddress(j) ==
  IF j.t = "null" THEN Ok(None)
  ELSE IF j.t = "str" THEN ParseAddr(j.s)
  ELSE Fail

\* A model-typed value: an object, or a value dict() turns into {}.
AsDict(j) ==
  IF j.t = "obj" THEN Ok(j.o)
  ELSE IF j.t = "str" /\ j.s = "" THEN Ok(NoDomains)
  ELSE Fail

\* ZoneRecord: zone_id and record_id are required, proxied defaults to False.
ZoneRecordOf(z, r, p) ==
  IF z.ok /\ r.ok /\ p.ok THEN Ok(ZoneRecord(z.v, r.v, p.v)) ELSE Fail

ZoneRecordFields(d) ==
  IF ~d.ok THEN Fail
  ELSE IF ~({"zone_id", "record_id"} \subseteq DOMAIN d.v) THEN Fail
  ELSE ZoneRecordOf(ParseStr(d.v["zone_id"]), ParseStr(d.v["record_id"]),
                    IF "proxied" \in DOMAIN d.v THEN ParseBool(d.v["proxied"])
                    ELSE Ok(FALSE))

ParseZoneRecord(j) == ZoneRecordFields(AsDict(j))

\* Dict[str, ZoneRecord] field: an object whose every value is a ZoneRecord.
UpdatedDomainsOf(m) ==
  IF \A d \in DOMAIN m : m[d].ok THEN Ok([d \in DOMAIN m |-> m[d].v]) ELSE Fail

ParseUpdatedDomains(j) ==
  IF j.t # "obj" THEN Fail
  ELSE UpdatedDomainsOf([d \in DOMAIN j.o |-> ParseZoneRecord(j.o[d])])

\* IPCache: both fields have defaults.
IPCacheOf(a, m) == IF a.ok /\ m.ok THEN Ok(IPCache(a.v, m.v)) ELSE Fail

IPCacheFields(d) ==
  IF ~d.ok THEN Fail
  ELSE IPCacheOf(IF "address" \in DOMAIN d.v THEN ParseAddress(d.v["address"])
                 ELSE Ok(None),
                 IF "updated_domains" \in DOMAIN d.v
                   THEN ParseUpdatedDomains(d.v["updated_domains"])
                 ELSE Ok(NoDomains))

ParseIPCache(j) == IPCacheFields(AsDict(j))

\* Cache: both fields have the default IPCache().
CacheOf(i4, i6) == IF i4.ok /\ i6.ok THEN Ok(Cache(i4.v, i6.v)) ELSE Fail

CacheFields(d) ==
  IF ~d.ok THEN Fail
  ELSE CacheOf(IF "ipv4" \in DOMAIN d.v THEN ParseIPCache(d.v["ipv4"])
               ELSE Ok(IPCache(None, NoDomains)),
               IF "ipv6" \in DOMAIN d.v THEN ParseIPCache(d.v["ipv6"])
               ELSE Ok(IPCache(None, NoDomains)))

ParseCache(j) == CacheFields(AsDict(j))

\* Cache.parse_raw(cache_json): decode the JSON, then validate it.
parse_raw(text) == IF text.k = "json" THEN ParseCache(text.doc) ELSE Fail

\* ------------------------------------------------------------ file system
\* The cache path: whether a file is there, whether this process may read it,
\* and its content.
File(text, readable) == [exists |-> TRUE, readable |-> readable, text |-> text]
Missing == [exists |-> FALSE, readable |-> FALSE, text |-> EmptyText]

\* Documents found at the cache path that no save() of this version wrote.
Rec1 == [zone_id |-> JStr("z1"), record_id |-> JStr("r1")]
EmptyIPCacheJson == IPCacheJson(IPCache(None, NoDomains))
ForeignDocs ==
  { JNull,
    JObj(NoDomains),
    JObj([ipv4 |-> JObj([address |-> JStr(V4Text[1])])]),
    JObj([ipv4 |-> JNull, ipv6 |-> EmptyIPCacheJson]),
    JObj([ipv4 |-> JObj([address |-> JStr("not-an-address")]),
          ipv6 |-> EmptyIPCacheJson]),
    JObj([ipv4 |-> JObj([address |-> JNull,
                         updated_domains |-> JObj([d \in {DomainNames[1]} |-> JObj(Rec1)])]),
          ipv6 |-> EmptyIPCacheJson]),
    JObj([ipv4 |-> JObj([address |-> JStr(V4Text[1]),
                         updated_domains |->
                           JObj([d \in {DomainNames[1]} |-> JObj([record_id |-> JStr("r1")])])]),
          ipv6 |-> EmptyIPCacheJson]),
    JObj([ipv4 |-> EmptyIPCacheJson,
          ipv6 |-> JObj([address |-> JStr(V6Exploded[1]),
                         updated_domains |->
                           JObj([d \in {DomainNames[1]} |->
                                   JObj([zone_id |-> JStr("z1"), record_id |-> JStr("r1"),
                                         proxied |-> JStr("yes")])])])]),
    JObj([ipv4 |-> EmptyIPCacheJson, ipv6 |-> EmptyIPCacheJson,
          version |-> JStr("1")]) }

ForeignTexts ==
  {GarbageText, EmptyText, UndecodableText} \cup {JsonText(j) : j \in ForeignDocs}

\* Path.read_text(): the text, or the exception it raises.
read_text(f) ==
  IF ~f.exists THEN [exc |-> "FileNotFoundError", text |-> EmptyText]
  ELSE IF ~f.readable THEN [exc |-> "PermissionError", text |-> EmptyText]
  ELSE IF f.text.k = "undecodable" THEN [exc |-> "UnicodeDecodeError", text |-> EmptyText]
  ELSE [exc |-> "", text |-> f.text]

\* open(path, "w"): the file is created or truncated; its mode is kept.
open_w(f) == IF f.exists THEN File(EmptyText, f.readable) ELSE File(EmptyText, TRUE)

\* Path.write_text(data), run to its end.
write_text(f, text) == [open_w(f) EXCEPT !.text = text]

\* Path.unlink(missing_ok=True)
unlink(f) == Missing

\* ------------------------------------------------------------ CacheManager
\* What a call gives back: the exception that escapes it ("" for none), the
\* value returned, the file it leaves, and the printer's messages.
Outcome(exc, val, f, log) == [exc |-> exc, val |-> val, file |-> f, log |-> log]

\* A delete() that calls unlink() without missing_ok.
deleteMissingNotOk(f) ==
  IF f.exists THEN Outcome("", None, unlink(f), <<"Deleting cache">>)
  ELSE Outcome("FileNotFoundError", None, f, <<"Deleting cache">>)

\* CacheManager.delete
delete(f) == Outcome("", None, unlink(f), <<"Deleting cache">>)

\* The end of _load: the text was read, p is what parse_raw made of it.
Parsed(f, p) ==
  IF p.ok THEN Outcome("", p.v, f, <<"Loading cache">>)
  ELSE Outcome("InvalidCache", None, f, <<"Loading cache", "Invalid cache file">>)

\* _load's try block and its except clauses, r being what read_text gave.
AfterRead(f, r) ==
  IF r.exc = "FileNotFoundError"
    THEN Outcome("", EmptyCache, f, <<"Loading cache", "Cache file not found.">>)
  ELSE IF r.exc # ""
    THEN Outcome("InvalidCache", None, f, <<"Loading cache", "Invalid cache file">>)
  ELSE Parsed(f, parse_raw(r.text))

\* The except clauses in the other order: a missing file is caught by
\* "except Exception".
AfterReadMissingIsInvalid(f, r) ==
  IF r.exc # ""
    THEN Outcome("InvalidCache", None, f, <<"Loading cache", "Invalid cache file">>)
  ELSE Parsed(f, parse_raw(r.text))

\* Only the parser's errors are caught: an OSError of read_text escapes.
AfterReadOSErrorEscapes(f, r) ==
  IF r.exc = "FileNotFoundError"
    THEN Outcome("", EmptyCache, f, <<"Loading cache", "Cache file not found.">>)
  ELSE IF r.exc = "PermissionError"
    THEN Outcome("PermissionError", None, f, <<"Loading cache">>)
  ELSE IF r.exc # ""
    THEN Outcome("InvalidCache", None, f, <<"Loading cache", "Invalid cache file">>)
  ELSE Parsed(f, parse_raw(r.text))

PrivLoadMissingIsInvalid(f) == AfterReadMissingIsInvalid(f, read_text(f))
PrivLoadOSErrorEscapes(f) == AfterReadOSErrorEscapes(f, read_text(f))

\* CacheManager._load
PrivLoad(f) == AfterRead(f, read_text(f))

\* load's except clause and last line: InvalidCache is answered by delete()
\* and a fresh Cache; r is what _load gave.
Recovered(r, d) ==
  IF r.exc = "InvalidCache" THEN Outcome("", EmptyCache, d.file, r.log \o d.log)
  ELSE r

\* The except clause without its self.delete().
RecoveredKeepsFile(r) ==
  IF r.exc = "InvalidCache" THEN Outcome("", EmptyCache, r.file, r.log)
  ELSE r

loadKeepsFile(f, frc) ==
  IF frc THEN Outcome("", EmptyCache, f, <<>>)
  ELSE RecoveredKeepsFile(PrivLoad(f))

\* load without the test of self._force.
loadIgnoresForce(f, frc) == Recovered(PrivLoad(f), delete(f))

\* CacheManager.load
load(f, frc) ==
  IF frc THEN Outcome("", EmptyCache, f, <<>>)
  ELSE Recovered(PrivLoad(f), delete(f))

\* A save() that writes only when there is no file yet.
saveIfAbsent(f, dir, c) ==
  IF ~dir THEN Outcome("FileNotFoundError", None, f, <<"Saving cache">>)
  ELSE IF f.exists THEN Outcome("", None, f, <<"Saving cache">>)
  ELSE Outcome("", None, write_text(f, json(c)), <<"Saving cache">>)

\* CacheManager.save, run to its end: write_text raises when the parent
\* directory is missing.
save(f, dir, c) ==
  IF ~dir THEN Outcome("FileNotFoundError", None, f, <<"Saving cache">>)
  ELSE Outcome("", None, write_text(f, json(c)), <<"Saving cache">>)

\* ----------------------------------------------------------------- objects
\* Cache, IPCache and dict values are Python objects: two names may stand for
\* one object, and then a change made through one name shows through the
\* other. heap.dicts[i] is the content of dict i, heap.ipcs[i] the fields of
\* IPCache object i (updated_domains names a dict), heap.caches[k] the fields
\* of Cache object k (ipv4 and ipv6 name IPCache objects).

\* How many Cache objects are constructed, and how many dicts are allocated.
MaxCaches == 2
MaxDicts == 8

\* IPCache(address=a, updated_domains=m): a new object with a dict of its own.
NewIPCache(h, a, m) ==
  [h EXCEPT !.dicts = Append(@, m),
            !.ipcs = Append(@, [address |-> a, updated_domains |-> Len(h.dicts) + 1])]

\* After the class statements: the dict that is the default of
\* IPCache.updated_domains (dict 1), and the two IPCache() objects that are the
\* defaults of Cache.ipv4 (object 1) and Cache.ipv6 (object 2); an IPCache()
\* gets a copy of the default dict.
ClassHeap ==
  NewIPCache(NewIPCache([dicts |-> <<NoDomains>>, ipcs |-> <<>>, caches |-> <<>>],
                        None, NoDomains),
             None, NoDomains)

\* The value of an IPCache object.
IPCacheAt(h, i) == IPCache(h.ipcs[i].address, h.dicts[h.ipcs[i].updated_domains])

\* A Cache object whose fields are new IPCache objects with the values i4, i6.
NewCacheOf(h, i4, i6) ==
  [NewIPCache(NewIPCache(h, i4.address, i4.updated_domains),
              i6.address, i6.updated_domains)
     EXCEPT !.caches = Append(@, [ipv4 |-> Len(h.ipcs) + 1, ipv6 |-> Len(h.ipcs) + 2])]

\* A Cache() whose fields are the default objects of the class themselves.
NewCacheSharesDefaults(h) == [h EXCEPT !.caches = Append(@, [ipv4 |-> 1, ipv6 |-> 2])]

\* Cache(): each field gets a copy of its default.
NewCache(h) == NewCacheOf(h, IPCacheAt(h, 1), IPCacheAt(h, 2))

\* Cache.parse_raw of the text of c: new objects throughout.
ParsedCache(h, c) == NewCacheOf(h, c.ipv4, c.ipv6)

\* IPCache.clear() on the IPCache object i: address = None, and a new dict.
ClearAt(h, i) ==
  [h EXCEPT !.dicts = Append(@, NoDomains),
            !.ipcs[i] = [address |-> None, updated_domains |-> Len(h.dicts) + 1]]

\* ipc.updated_domains[d] = zr; ipc.address = a, on the IPCache object i.
UpdateAt(h, i, d, zr, a) ==
  [h EXCEPT !.dicts[h.ipcs[i].updated_domains] = (d :> zr) @@ @,
            !.ipcs[i].address = a]

\* What family f of Cache object k holds.
ViewIn(h, k, f) == IPCacheAt(h, h.caches[k][f])

\* ------------------------------------------------------------------ state
VARIABLES
  parent,    \* whether the cache path's parent directory exists
  file,      \* the file at the cache path
  force,     \* CacheManager._force
  ret,       \* the latest call of the manager and how it ended (in a run:
             \* the load() it began with)
  lastSaved, \* the argument of the latest save() that returned, while nothing
             \* but load() has touched the file since (None otherwise)
  pc,        \* where the process is: "idle" (not running), "reconcile",
             \* "saving" (file opened for writing), "partial" (part written)
  cache,     \* the Cache the running process holds (None when idle)
  config,    \* the configured domains of each family
  observed,  \* the address discovered for each family in this run (or None)
  todo,      \* the <<family, domain>> pairs this run has still to decide
  calls,     \* the pairs a provider call was issued for in this run
  failed,    \* the pairs whose provider call failed in this run
  status,    \* how the latest run ended: "none", "exit0", "exit1", "killed"
  prev,      \* the run before this one: whether it ran to its end, whether it
             \* observed what this run observes, and the pairs it left unresolved
  heap       \* the Python objects behind the Cache values: the dicts, the
             \* IPCache objects and the Cache objects, each kind by identity

storeVars == <<parent, file, force, ret, lastSaved>>
runVars == <<pc, cache, config, observed, todo, calls, failed, status, prev>>
vars == <<parent, file, force, ret, lastSaved,
          pc, cache, config, observed, todo, calls, failed, status, prev, heap>>

Call(op, out, arg, pre) ==
  [op |-> op, exc |-> out.exc, val |-> out.val, log |-> out.log, arg |-> arg, pre |-> pre]
NoCall == [op |-> "none", exc |-> "", val |-> None, log |-> <<>>, arg |-> None, pre |-> None]

Families == {"ipv4", "ipv6"}
NoObserved == [f \in Families |-> None]
NoPrev == [done |-> FALSE, same |-> FALSE, failed |-> {}]

\* No run of the engine has started.
RunIdle ==
  /\ pc = "idle"
  /\ cache = None
  /\ observed = NoObserved
  /\ todo = <<>>
  /\ calls = {}
  /\ failed = {}
  /\ status = "none"
  /\ prev = NoPrev

Init ==
  /\ RunIdle
  /\ config = [f \in Families |-> {}]
  /\ parent \in BOOLEAN
  /\ file \in IF parent
                THEN {Missing} \cup {File(t, r) : t \in ForeignTexts, r \in BOOLEAN}
              ELSE {Missing}
  /\ force \in BOOLEAN
  /\ ret = NoCall
  /\ lastSaved = None
  /\ heap = ClassHeap

\* CacheManager.ensure_path
EnsurePath ==
  /\ parent' = TRUE
  /\ ret' = Call("ensure_path", Outcome("", None, file, <<>>), None, file)
  /\ UNCHANGED <<file, force, lastSaved>>
  /\ UNCHANGED runVars
  /\ UNCHANGED heap

Load ==
  \E r \in {load(file, force)} :
    /\ file' = r.file
    /\ ret' = Call("load", r, None, file)
    /\ UNCHANGED <<parent, force, lastSaved>>
    /\ UNCHANGED runVars
    /\ UNCHANGED heap

Save ==
  \E c \in Caches : \E r \in {save(file, parent, c)} :
    /\ file' = r.file
    /\ ret' = Call("save", r, c, None)
    /\ lastSaved' = IF r.exc = "" THEN c ELSE lastSaved
    /\ UNCHANGED <<parent, force>>
    /\ UNCHANGED runVars
    /\ UNCHANGED heap

Delete ==
  \E r \in {delete(file)} :
    /\ file' = r.file
    /\ ret' = Call("delete", r, None, file)
    /\ lastSaved' = None
    /\ UNCHANGED <<parent, force>>
    /\ UNCHANGED runVars
    /\ UNCHANGED heap

\* Someone else rewrites the file, or changes its mode.
Tamper ==
  /\ parent
  /\ \/ \E t \in ForeignTexts, r \in BOOLEAN : file' = File(t, r)
     \/ file.exists /\ file' = [file EXCEPT !.readable = ~file.readable]
  /\ ret' = NoCall
  /\ lastSaved' = None
  /\ UNCHANGED <<parent, force>>
  /\ UNCHANGED runVars
  /\ UNCHANGED heap

Next == EnsurePath \/ Load \/ Save \/ Delete \/ Tamper

Spec == Init /\ [][Next]_vars

\* ---------------------------------------------------- reconciliation engine
\* The engine of spec.md 4.2, run as one process: discover the addresses, load
\* the Cache, decide each configured domain of each family, save, exit.

\* Addresses the discovery collaborator may report for IPv4 (for IPv6: one).
MaxObserved == 2
Family(f) == IF f = "ipv4" THEN 4 ELSE 6
Observable(f) ==
  {None} \cup {Addr(Family(f), n) : n \in 1..(IF f = "ipv4" THEN MaxObserved ELSE 1)}

\* The proxy flag is supplied by configuration.
Proxied == TRUE

\* The configured domains of a family, in the order they are gone through.
InConfig(S, d) == d \in S
DomainSeq(S) == SelectSeq(DomainNames, LAMBDA d : InConfig(S, d))
PairsOf(f, q) == [i \in 1..Len(q) |-> <<f, q[i]>>]
Pairs(f, S) == PairsOf(f, DomainSeq(S))

\* Rule 1: the observed address is the cached one and every configured domain
\* has an entry.
FullyReconciled(ipc, obs, doms) ==
  ipc.address = obs /\ doms \subseteq DOMAIN ipc.updated_domains

\* Rule 2a: the domain has a ZoneRecord cached for the observed address.
HasRecordFor(ipc, d, obs) ==
  ipc.address = obs /\ d \in DOMAIN ipc.updated_domains

\* The pairs of one family a run has to go through: none when discovery gave
\* no address (the family is skipped) or rule 1 holds.
Worklist(c, f, obs, doms) ==
  IF obs = None \/ FullyReconciled(c[f], obs, doms) THEN <<>> ELSE Pairs(f, doms)

\* Rule 2c: updated_domains[Domain] = ZoneRecord, address = the observed one.
Record(c, f, d, zr, obs) ==
  [c EXCEPT ![f] = IPCache(obs, (d :> zr) @@ c[f].updated_domains)]

\* upsert_record(domain, address, proxied) when it succeeds.
upsert_record(d, a, p) == ZoneRecord("z1", "r1", p)

\* An exit status that does not look at the failures.
ExitStatusAlwaysZero(unresolved) == "exit0"

\* The exit status of a run: non-zero when a domain ended it unresolved.
ExitStatus(unresolved) == IF unresolved = {} THEN "exit0" ELSE "exit1"

\* The configurations: the first k domains for IPv4, and for IPv6 none or the
\* first domain.
FirstDomains(k) == {DomainNames[i] : i \in 1..k}
Configs ==
  {[f \in Families |-> IF f = "ipv4" THEN FirstDomains(k4) ELSE FirstDomains(k6)] :
     k4 \in 0..MaxDomains, k6 \in 0..1}

InitRun ==
  /\ RunIdle
  /\ config \in Configs
  /\ parent \in BOOLEAN
  /\ file = Missing
  /\ force \in BOOLEAN
  /\ ret = NoCall
  /\ lastSaved = None
  /\ heap = ClassHeap

\* A run starts: ensure_path(), discovery for both families, load().
RunStart ==
  /\ pc = "idle"
  /\ \E o4 \in Observable("ipv4"), o6 \in Observable("ipv6"), r \in {load(file, force)} :
       /\ parent' = TRUE
       /\ file' = r.file
       /\ ret' = Call("load", r, None, file)
       /\ cache' = r.val
       /\ observed' = [f \in Families |-> IF f = "ipv4" THEN o4 ELSE o6]
       /\ todo' = Worklist(r.val, "ipv4", o4, config["ipv4"])
                  \o Worklist(r.val, "ipv6", o6, config["ipv6"])
       /\ prev' = [done |-> status \in {"exit0", "exit1"},
                   same |-> o4 = observed["ipv4"] /\ o6 = observed["ipv6"],
                   failed |-> failed]
  /\ pc' = "reconcile"
  /\ calls' = {}
  /\ failed' = {}
  /\ UNCHANGED <<force, lastSaved, config, status>>
  /\ UNCHANGED heap

\* Rule 2a: the domain is skipped.
SkipDomain ==
  /\ pc = "reconcile" /\ todo # <<>>
  /\ \E f \in Families, d \in Domains :
       /\ Head(todo) = <<f, d>>
       /\ HasRecordFor(cache[f], d, observed[f])
  /\ todo' = Tail(todo)
  /\ UNCHANGED <<storeVars, pc, cache, config, observed, calls, failed, status, prev>>
  /\ UNCHANGED heap

\* Rules 2b, 2c: the provider is called and succeeds.
UpdateDomain ==
  /\ pc = "reconcile" /\ todo # <<>>
  /\ \E f \in Families, d \in Domains :
       /\ Head(todo) = <<f, d>>
       /\ ~HasRecordFor(cache[f], d, observed[f])
       /\ calls' = calls \cup {<<f, d>>}
       /\ cache' = Record(cache, f, d, upsert_record(d, observed[f], Proxied), observed[f])
  /\ todo' = Tail(todo)
  /\ UNCHANGED <<storeVars, pc, config, observed, failed, status, prev>>
  /\ UNCHANGED heap

\* Rules 2b, 2d: the provider is called and fails; the run goes on.
UpdateFails ==
  /\ pc = "reconcile" /\ todo # <<>>
  /\ \E f \in Families, d \in Domains :
       /\ Head(todo) = <<f, d>>
       /\ ~HasRecordFor(cache[f], d, observed[f])
       /\ calls' = calls \cup {<<f, d>>}
       /\ failed' = failed \cup {<<f, d>>}
  /\ todo' = Tail(todo)
  /\ UNCHANGED <<storeVars, pc, cache, config, observed, status, prev>>
  /\ UNCHANGED heap

\* save(cache) run to its end, and the exit of the run.
RunSave ==
  /\ pc = "reconcile" /\ todo = <<>>
  /\ file' = save(file, parent, cache).file
  /\ lastSaved' = cache
  /\ status' = ExitStatus(failed)
  /\ pc' = "idle"
  /\ cache' = None
  /\ UNCHANGED <<parent, force, ret, config, observed, todo, calls, failed, prev>>
  /\ UNCHANGED heap

NextRun == RunStart \/ SkipDomain \/ UpdateDomain \/ UpdateFails \/ RunSave

SpecRun == InitRun /\ [][NextRun]_vars

\* ------------------------------------------------------ forced termination
\* save() taken one system call at a time, in a process that may be terminated
\* from outside at any point.

\* save(cache) begins: write_text opens the file, which truncates it.
SaveOpen ==
  /\ pc = "idle" /\ parent
  /\ \E i4 \in FewIPCaches : cache' = Cache(i4, IPCache(None, NoDomains))
  /\ file' = open_w(file)
  /\ pc' = "saving"
  /\ UNCHANGED <<parent, force, ret, lastSaved, config, observed, todo, calls,
                 failed, status, prev>>
  /\ UNCHANGED heap

\* The text is written in one piece and the file closed: save() returns.
SaveWrite ==
  /\ pc \in {"saving", "partial"}
  /\ file' = [file EXCEPT !.text = json(cache)]
  /\ ret' = Call("save", Outcome("", None, file', <<"Saving cache">>), cache, None)
  /\ lastSaved' = cache
  /\ pc' = "idle"
  /\ cache' = None
  /\ UNCHANGED <<parent, force, config, observed, todo, calls, failed, status, prev>>
  /\ UNCHANGED heap

\* Only the first buffer of a long text has reached the file.
SaveWritePart ==
  /\ pc = "saving"
  /\ file' = [file EXCEPT !.text = PartialText(CacheJson(cache))]
  /\ pc' = "partial"
  /\ UNCHANGED <<parent, force, ret, lastSaved, cache, config, observed, todo, calls,
                 failed, status, prev>>
  /\ UNCHANGED heap

\* The process is terminated in the middle of save().
Kill ==
  /\ pc # "idle"
  /\ pc' = "idle"
  /\ status' = "killed"
  /\ cache' = None
  /\ UNCHANGED <<storeVars, config, observed, todo, calls, failed, prev>>
  /\ UNCHANGED heap

\* The next process starts, and loads.
Restart ==
  /\ pc = "idle"
  /\ Load

InitCrash ==
  /\ Init
  /\ file = Missing

NextCrash == EnsurePath \/ Restart \/ SaveOpen \/ SaveWritePart \/ SaveWrite \/ Kill

SpecCrash == InitCrash /\ [][NextCrash]_vars

\* ------------------------------------------------------ objects in use
\* A process that constructs and loads Caches and changes them in place.
Loadable == {Cache(i4, IPCache(None, NoDomains)) : i4 \in FewIPCaches} \ {EmptyCache}

\* Cache(): also what load() returns for a missing or an invalid file.
Construct ==
  /\ Len(heap.caches) < MaxCaches
  /\ Len(heap.dicts) + 2 <= MaxDicts
  /\ heap' = NewCache(heap)
  /\ UNCHANGED <<storeVars, runVars>>

\* load() of a file that parses.
Parse ==
  /\ Len(heap.caches) < MaxCaches
  /\ Len(heap.dicts) + 2 <= MaxDicts
  /\ \E c \in Loadable : heap' = ParsedCache(heap, c)
  /\ UNCHANGED <<storeVars, runVars>>

\* cache.<family>.clear()
ClearFamily ==
  /\ Len(heap.dicts) < MaxDicts
  /\ \E k \in 1..Len(heap.caches), f \in Families :
       heap' = ClearAt(heap, heap.caches[k][f])
  /\ UNCHANGED <<storeVars, runVars>>

\* The update of one family's IPCache after a provider call.
UpdateFamily ==
  /\ \E k \in 1..Len(heap.caches), f \in Families, zr \in ZoneRecords :
       heap' = UpdateAt(heap, heap.caches[k][f], DomainNames[1], zr, Addr(Family(f), 1))
  /\ UNCHANGED <<storeVars, runVars>>

InitObj ==
  /\ RunIdle
  /\ config = [f \in Families |-> {}]
  /\ parent = TRUE
  /\ file = Missing
  /\ force = FALSE
  /\ ret = NoCall
  /\ lastSaved = None
  /\ heap = ClassHeap

NextObj == Construct \/ Parse \/ ClearFamily \/ UpdateFamily

SpecObj == InitObj /\ [][NextObj]_vars

\* ------------------------------------------------------------- cache store
Printed(log, msg) == \E i \in DOMAIN log : log[i] = msg

\* A file that is there and can be read, with content that is no Cache.
Corrupted(f) == f.exists /\ f.readable /\ ~parse_raw(f.text).ok
\* A file that is there and that this process may not read.
ReadDenied(f) == f.exists /\ ~f.readable

LoadReturned == ret.op = "load"

\* C1: without force, load() of a file whose content does not parse returns an
\* empty Cache, lets no exception escape and leaves no file; the next load()
\* takes the missing-file path.
C1_CorruptionRecovery ==
  (LoadReturned /\ ~force /\ Corrupted(ret.pre)) =>
    /\ ret.exc = ""
    /\ ret.val = EmptyCache
    /\ ~file.exists
    /\ LET n == load(file, force) IN
         /\ n.exc = ""
         /\ n.val = EmptyCache
         /\ Printed(n.log, "Cache file not found.")
         /\ ~Printed(n.log, "Invalid cache file")

C1_Witness ==
  LoadReturned /\ ~force /\ Corrupted(ret.pre) /\ ret.pre.text = GarbageText /\ ~file.exists

C3_MissingFileTolerance ==
  (LoadReturned /\ ~ret.pre.exists) =>
    /\ ret.exc = ""
    /\ ret.val = EmptyCache
    /\ ~Printed(ret.log, "Invalid cache file")
    /\ ~Printed(ret.log, "Deleting cache")
    /\ ~file.exists

C3_Witness ==
  /\ LoadReturned /\ ~force /\ ~ret.pre.exists /\ ~file.exists
  /\ Printed(ret.log, "Cache file not found.")

\* C4: a load() without force that follows save(c), of a file this process may
\* read, returns a Cache equal to c in every field.
C4_RoundTrip ==
  (LoadReturned /\ ~force /\ lastSaved # None /\ ret.pre.readable) =>
    /\ ret.exc = ""
    /\ ret.val.ipv4.address = lastSaved.ipv4.address
    /\ ret.val.ipv6.address = lastSaved.ipv6.address
    /\ ret.val.ipv4.updated_domains = lastSaved.ipv4.updated_domains
    /\ ret.val.ipv6.updated_domains = lastSaved.ipv6.updated_domains
    /\ ret.val = lastSaved
    /\ file.exists

C4_Witness ==
  /\ LoadReturned /\ ~force /\ lastSaved # None /\ ret.pre.readable
  /\ lastSaved.ipv4.address # None
  /\ \E d \in DOMAIN lastSaved.ipv4.updated_domains :
       lastSaved.ipv4.updated_domains[d].proxied
  /\ ret.val = lastSaved

\* C10: with force, load() returns an empty Cache whatever is at the cache
\* path, raises nothing, reads nothing and leaves the file as it was.
C10_ForcedLoad ==
  (LoadReturned /\ force) =>
    /\ ret.exc = ""
    /\ ret.val = EmptyCache
    /\ ret.log = <<>>
    /\ file = ret.pre

C10_Witness == LoadReturned /\ force /\ Corrupted(ret.pre) /\ file = ret.pre

\* C8: an IPCache the program holds after load() has an address whenever its
\* updated_domains is not empty.
C8_IPCacheInvariant ==
  (LoadReturned /\ ret.exc = "") =>
    \A f \in Families :
      ret.val[f].updated_domains # NoDomains => ret.val[f].address # None

\* ------------------------------------------------------------------ engine
\* The latest run went to its end.
RunDone == pc = "idle" /\ status \in {"exit0", "exit1"}
\* The pairs configured for a family whose address was discovered in this run.
Active == {p \in Families \X Domains : p[2] \in config[p[1]] /\ observed[p[1]] # None}
\* The pair had no ZoneRecord cached for the observed address when the run began.
NeedsAction(p) == ~HasRecordFor(ret.val[p[1]], p[2], observed[p[1]])

C9_CrashSafe ==
  pc = "idle" =>
    IF lastSaved = None THEN ~file.exists
    ELSE file.exists /\ file.text = json(lastSaved)

\* A readable file holding a JSON object without the key ipv4 or the key ipv6.
LacksFamilyKey(f) ==
  /\ f.exists /\ f.readable
  /\ f.text.k = "json" /\ f.text.doc.t = "obj"
  /\ ~({"ipv4", "ipv6"} \subseteq DOMAIN f.text.doc.o)

\* C11: without force, load() of a file whose JSON object lacks the key ipv4
\* or the key ipv6 reports an invalid cache, deletes the file and returns an
\* empty Cache.
C11_StrictSchema ==
  (LoadReturned /\ ~force /\ LacksFamilyKey(ret.pre)) =>
    /\ Printed(ret.log, "Invalid cache file")
    /\ ~file.exists
    /\ ret.val = EmptyCache

C14_DeleteIdempotent ==
  ret.op = "delete" =>
    /\ ret.exc = ""
    /\ ~file.exists
    /\ ~ret.pre.exists => file = ret.pre
    /\ delete(file).exc = ""
    /\ delete(file).file = file

C14_Witness ==
  /\ ret.op = "delete" /\ ret.exc = ""
  /\ parent /\ ~ret.pre.exists
  /\ file = ret.pre

\* C15: the file holds exactly the text of the Cache given to the most recent
\* save(), nothing of what was there before; a load() without force of that
\* file returns this Cache and leaves the file alone, and a load() after a
\* delete() that no save() followed returns an empty Cache.
C15_LastWriteWins ==
  /\ (lastSaved # None /\ file.exists) => file.text = json(lastSaved)
  /\ (LoadReturned /\ ~force /\ lastSaved # None /\ ret.pre.exists /\ ret.pre.readable) =>
       /\ ret.val = lastSaved
       /\ file = ret.pre
  /\ (LoadReturned /\ ~force /\ lastSaved = None /\ ~ret.pre.exists) =>
       /\ ret.val = EmptyCache
       /\ ~file.exists

C15_Witness ==
  /\ LoadReturned /\ ~force /\ ret.pre.exists /\ ret.pre.readable
  /\ lastSaved # None
  /\ lastSaved.ipv4 = IPCache(None, NoDomains)
  /\ lastSaved.ipv6.updated_domains # NoDomains
  /\ ret.val = lastSaved
  /\ file.text = json(lastSaved)

\* A step that removes the cache file.
FileRemoved == file.exists /\ ~file'.exists
\* load() never writes the file and leaves a file it accepts as it is; save(),
\* ensure_path() and a forced load() remove no file.
NoOtherRemoval ==
  /\ ret'.op = "load" => (file' = file \/ FileRemoved)
  /\ (ret'.op = "load" /\ file.exists /\ file.readable /\ parse_raw(file.text).ok) =>
       file' = file
  /\ (ret'.op \in {"save", "ensure_path"} \/ (ret'.op = "load" /\ force)) => ~FileRemoved

C17_NoSharedState ==
  [][ \A k1, k2 \in 1..Len(heap.caches) : \A f1, f2 \in Families :
        (<<k1, f1>> # <<k2, f2>> /\ ViewIn(heap', k1, f1) # ViewIn(heap, k1, f1)) =>
          ViewIn(heap', k2, f2) = ViewIn(heap, k2, f2) ]_vars

\* One domain is held by both families of the first Cache with different
\* ZoneRecords, while a second Cache, constructed empty, is still empty.
C17_Witness ==
  /\ Len(heap.caches) = 2
  /\ DomainNames[1] \in DOMAIN ViewIn(heap, 1, "ipv4").updated_domains
  /\ DomainNames[1] \in DOMAIN ViewIn(heap, 1, "ipv6").updated_domains
  /\ ViewIn(heap, 1, "ipv4").updated_domains[DomainNames[1]]
       # ViewIn(heap, 1, "ipv6").updated_domains[DomainNames[1]]
  /\ ViewIn(heap, 1, "ipv4").address # ViewIn(heap, 1, "ipv6").address
  /\ ViewIn(heap, 2, "ipv4") = IPCache(None, NoDomains)
  /\ ViewIn(heap, 2, "ipv6") = IPCache(None, NoDomains)

====
